---- MODULE Spec2Model ----
(***************************************************************************)
(* A model of bcbio/pipeline/variation.py: summarize_vc and its output     *)
(* deduplication, _combine_validations, postprocess_variants with its      *)
(* staging (_symlink_to_workdir) and representative selection              *)
(* (_get_batch_representative).                                            *)
(*                                                                         *)
(* Text (sample names, caller names, paths, lines of a report) is a        *)
(* sequence of one-character strings, so that formatting, joining,         *)
(* prefix tests, basenames and sorting are computed as Python computes     *)
(* them.  None is the one-element sequence <<"<None>">>, which is no text. *)
(***************************************************************************)
EXTENDS Integers, Sequences, FiniteSets, TLC

VARIABLES
  (* summarize_vc *)
  items,      \* the input records, after to_single_data
  vc_pc,      \* position in summarize_vc
  idx,        \* index of the record `data` the outer loop is at
  to_add,     \* the (vrn_key, out_key, name) triples left for this record
  added,      \* the set `added` of names already emitted
  out,        \* the manifest: validate, variants.calls, variants.gvcf
  out_file,   \* the output file being produced
  vc_files,   \* output files on disk: path -> [src, bgzip]
  emitted,    \* history: the outputs registered, in order
  (* _combine_validations *)
  cv_items,   \* the records given
  cv_files,   \* the files on disk: path -> text
  cv_pc,      \* position in _combine_validations
  csvs,       \* the set csvs
  pngs,       \* the set pngs
  cv_ret,     \* the value returned
  cv_written, \* history: the paths opened for writing
  (* postprocess_variants, _get_batch_representative, _symlink_to_workdir *)
  pp_single,  \* the argument is one record (a dict), not a group
  pp_items,   \* the records of the argument, as objects that can be written to
  pp_items0,  \* history: the records as they were given
  vrn_key,    \* "vrn_file" or "vrn_file_joint"
  data,       \* the record `data`
  data_ref,   \* the index in pp_items of the object `data` is, 0 for a new object
  ret_items,  \* the group _get_batch_representative returned
  orig_vrn_file,
  prio_vrn_file,
  fs,         \* the file system: path -> the file it resolves to
  pp_pc,      \* position in the function
  pp_err,     \* the error raised, if any
  pp_log,     \* history: the stages run, in order, with the call file each was given
  (* several calls of summarize_vc at once *)
  runs,       \* each call's own state: items, pc, idx, to_add, added, out, out_file
  disk,       \* the output files on disk, which the calls share: path -> [src, bgzip]
  written     \* history: the outputs registered by any call, in order

vc_vars == <<items, vc_pc, idx, to_add, added, out, out_file, vc_files, emitted>>

cv_vars == <<cv_items, cv_files, cv_pc, csvs, pngs, cv_ret, cv_written>>

pp_vars == <<pp_single, pp_items, pp_items0, vrn_key, data, data_ref, ret_items,
             orig_vrn_file, prio_vrn_file, fs, pp_pc, pp_err, pp_log>>

runs_vars == <<runs, disk, written>>

vars == <<vc_vars, cv_vars, pp_vars, runs_vars>>

\* What the steps of one function leave alone: the state of the others.
VcOnly == UNCHANGED <<cv_vars, pp_vars, runs_vars>>
CvOnly == UNCHANGED <<vc_vars, pp_vars, runs_vars>>
PpOnly == UNCHANGED <<vc_vars, cv_vars, runs_vars>>
RunsOnly == UNCHANGED <<vc_vars, cv_vars, pp_vars>>

(***************************************************************************)
(* Text                                                                    *)
(***************************************************************************)
None == <<"<None>">>

\* Python truthiness of an optional text value.
Truthy(v) == v # None /\ v # <<>>

\* os.path.join(a, b)
Join(a, b) ==
  IF b # <<>> /\ b[1] = "/" THEN b
  ELSE IF a = <<>> \/ a[Len(a)] = "/" THEN a \o b
  ELSE a \o <<"/">> \o b

\* "%s-%s" % (name, caller)
FmtNoSep(name, caller) == name \o caller
Fmt(name, caller) == name \o <<"-">> \o caller

VcfGz == <<".", "v", "c", "f", ".", "g", "z">>
DirVariants == <<"v", "a", "r", "i", "a", "n", "t", "s">>
DirCalls == <<"c", "a", "l", "l", "s">>
DirGvcf == <<"g", "v", "c", "f">>
DirValidation == <<"v", "a", "l", "i", "d", "a", "t", "i", "o", "n">>
CombinedCsv == <<"g", "r", "a", "d", "i", "n", "g", "-", "s", "u", "m", "m", "a", "r", "y",
                 "-", "c", "o", "m", "b", "i", "n", "e", "d", ".", "c", "s", "v">>

Range(s) == {s[i] : i \in 1..Len(s)}

\* The code point order Python's sorted() compares text by, for the characters used.
Ord(c) ==
  CASE c = "\n" -> 10 [] c = "-" -> 45 [] c = "." -> 46 [] c = "/" -> 47
    [] c = "1" -> 49 [] c = "2" -> 50 [] c = "3" -> 51
    [] c = "a" -> 97 [] c = "b" -> 98 [] c = "c" -> 99 [] c = "d" -> 100
    [] c = "e" -> 101 [] c = "f" -> 102 [] c = "g" -> 103 [] c = "h" -> 104
    [] c = "i" -> 105 [] c = "j" -> 106 [] c = "l" -> 108 [] c = "m" -> 109
    [] c = "n" -> 110 [] c = "o" -> 111 [] c = "p" -> 112 [] c = "r" -> 114
    [] c = "s" -> 115 [] c = "t" -> 116 [] c = "u" -> 117 [] c = "v" -> 118
    [] c = "w" -> 119 [] c = "x" -> 120 [] c = "y" -> 121 [] c = "z" -> 122
    [] OTHER -> 127

\* a < b for Python text
LexLess(a, b) ==
  \E k \in 1..Len(b) :
    /\ k <= Len(a) + 1
    /\ \A j \in 1..(k - 1) : a[j] = b[j]
    /\ (k = Len(a) + 1 \/ Ord(a[k]) < Ord(b[k]))

\* sorted(list(S)) for a set of texts
RECURSIVE Sorted(_)
Sorted(S) ==
  IF S = {} THEN <<>>
  ELSE LET m == CHOOSE x \in S : \A y \in S \ {x} : LexLess(x, y)
       IN <<m>> \o Sorted(S \ {m})

(***************************************************************************)
(* _combine_validations                                                    *)
(***************************************************************************)
\* A record's "validate" value is modelled as [grading_summary, grading_plots]:
\* a missing or None validate, or a missing key, is None / the empty list,
\* which lines 54 and 56 treat alike.

\* lines 51-55: the set csvs
Csvs(its) ==
  {its[i].validate.grading_summary :
     i \in {j \in 1..Len(its) : Truthy(its[j].validate.grading_summary)}}

\* lines 52-57: the set pngs
Pngs(its) == UNION {Range(its[i].validate.grading_plots) : i \in 1..Len(its)}

\* in_handle.readline(): the text up to and including the first newline
ReadLine(c) ==
  IF \E k \in 1..Len(c) : c[k] = "\n"
  THEN SubSeq(c, 1, CHOOSE k \in 1..Len(c) : c[k] = "\n" /\ \A j \in 1..(k - 1) : c[j] # "\n")
  ELSE c

\* what `for l in in_handle` yields after the readline, written back unchanged
AfterReadLine(c) == SubSeq(c, Len(ReadLine(c)) + 1, Len(c))

\* line 67: the header is written for the first report only
WritesHeaderAlways(i) == TRUE
WritesHeader(i) == i = 1

\* line 64: the order the reports are read in
CsvOrder(cs) == Sorted(cs)

\* lines 63-70: the text written to the combined file
RECURSIVE MergeFrom(_, _, _)
MergeFrom(order, files, i) ==
  IF i > Len(order) THEN <<>>
  ELSE (IF WritesHeader(i) THEN ReadLine(files[order[i]]) ELSE <<>>)
       \o AfterReadLine(files[order[i]])
       \o MergeFrom(order, files, i + 1)

\* line 61-62: the combined file's path
CombinedPathFlat(its) == Join(its[1].work_dir, CombinedCsv)
CombinedPath(its) == Join(Join(its[1].work_dir, DirValidation), CombinedCsv)

\* line 58: a single distinct report is returned as it is
OneCsv(cs) == Cardinality(cs) = 1

\* lines 58-62: the path returned as grading_summary
GradingSummary(its) ==
  IF OneCsv(Csvs(its)) THEN CHOOSE c \in Csvs(its) : TRUE ELSE CombinedPath(its)

\* line 71
CombineResult(its) ==
  [grading_plots |-> Sorted(Pngs(its)), grading_summary |-> GradingSummary(its)]

\* No call of summarize_vc beside the one modelled by itself.
RunsIdle ==
  /\ runs = <<>>
  /\ disk = <<>>
  /\ written = <<>>

(***************************************************************************)
(* Records of postprocess_variants                                         *)
(***************************************************************************)
\* A key the record does not have.
Absent == <<"<absent>">>

\* data.get(key)
Get(d, key) == IF d[key] = Absent THEN None ELSE d[key]

NoRecord ==
  [vrn_file |-> Absent, vrn_file_joint |-> Absent, align_bam |-> None,
   variantcaller |-> None, work_dir |-> None, variant_regions |-> None,
   vrn_stats |-> None]

NoError == [key |-> "", vals |-> {}]

PpIdle ==
  /\ pp_single = FALSE
  /\ pp_items = <<>>
  /\ pp_items0 = <<>>
  /\ vrn_key = "vrn_file"
  /\ data = NoRecord
  /\ data_ref = 0
  /\ ret_items = <<>>
  /\ orig_vrn_file = None
  /\ prio_vrn_file = None
  /\ fs = <<>>
  /\ pp_pc = "idle"
  /\ pp_err = NoError
  /\ pp_log = <<>>

(***************************************************************************)
(* _get_batch_representative                                               *)
(***************************************************************************)
\* lines 153-158: the values of the members that have the key
RepVals(its, key) == {its[i][key] : i \in {j \in 1..Len(its) : its[j][key] # Absent}}

\* lines 154-158: the indexes of the members that have the key, in order
RECURSIVE RepOut(_, _, _)
RepOut(its, key, i) ==
  IF i > Len(its) THEN <<>>
  ELSE (IF its[i][key] # Absent THEN <<i>> ELSE <<>>) \o RepOut(its, key, i + 1)

\* line 159
RepBadOnlyEmpty(vals) == Cardinality(vals) = 0
RepBad(vals) == Cardinality(vals) # 1

\* line 161: out[0]
RepPickLast(o) == o[Len(o)]
RepPick(o) == o[1]

\* line 160
RepError(its, key) == [key |-> key, vals |-> RepVals(its, key)]

(***************************************************************************)
(* _symlink_to_workdir                                                     *)
(***************************************************************************)
\* s.startswith(prefix)
StartsWith(s, prefix) == Len(prefix) <= Len(s) /\ SubSeq(s, 1, Len(prefix)) = prefix

\* os.path.basename(p): the text after the last "/"
Basename(p) ==
  IF \E k \in 1..Len(p) : p[k] = "/"
  THEN LET k == CHOOSE n \in 1..Len(p) : p[n] = "/" /\ \A j \in (n + 1)..Len(p) : p[j] # "/"
       IN SubSeq(p, k + 1, Len(p))
  ELSE p

Precalled == <<"p", "r", "e", "c", "a", "l", "l", "e", "d">>

\* lines 133-134: the file is set and not already under the work directory
NeedsLinkAlways(d, field) == Truthy(Get(d, field))
NeedsLink(d, field) == Truthy(Get(d, field)) /\ ~StartsWith(Get(d, field), d.work_dir)

\* lines 135-137
CallerDir(d) == IF Truthy(d.variantcaller) THEN d.variantcaller ELSE Precalled

\* line 138
LinkTarget(d, field) == Join(Join(d.work_dir, CallerDir(d)), Basename(Get(d, field)))

\* line 140, utils.symlink_plus(orig_file, out_file): a link that is there is kept
SymlinkPlus(files, orig_file, target) ==
  IF target \in DOMAIN files THEN files ELSE (target :> files[orig_file]) @@ files

\* lines 133-142: the record returned
Symlinked(d, field) ==
  IF NeedsLink(d, field) THEN [d EXCEPT ![field] = LinkTarget(d, field)] ELSE d

\* lines 139-140: the file system afterwards
SymlinkedFs(files, d, field) ==
  IF NeedsLink(d, field) THEN SymlinkPlus(files, Get(d, field), LinkTarget(d, field)) ELSE files

(***************************************************************************)
(* summarize_vc                                                            *)
(***************************************************************************)
MaxItems == 2

WorkDir == <<"/", "w">>
NameA == <<"a">>
NameB == <<"b">>
NameAB == <<"a", "-", "b">>
CallerC == <<"c">>
CallerBC == <<"b", "-", "c">>
FileX == <<"/", "i", "n", "/", "x", ".", "v", "c", "f">>
FileJ == <<"/", "i", "n", "/", "j", ".", "v", "c", "f">>

NoValidate == [grading_summary |-> None, grading_plots |-> <<>>]

\* The records summarize_vc is given: description is the sample name, batch the
\* batch names (dd.get_batches), in order.
VcRecords ==
  [description : {NameA, NameAB},
   batch : {<<>>, <<NameA>>, <<NameB>>},
   vrn_file : {None, FileX},
   vrn_file_joint : {None, FileJ},
   variantcaller : {CallerC, CallerBC},
   work_dir : {WorkDir},
   validate : {NoValidate}]

SeqsUpTo(S, n) == UNION {[1..k -> S] : k \in 0..n}

\* lines 25-28: the first batch name, or the sample name without a batch
BatchName(d) == IF d.batch = <<>> THEN d.description ELSE d.batch[1]

\* lines 29-33: the outputs of one record
ToAdd(d) ==
  IF d.vrn_file_joint # None
  THEN << [vrn_key |-> "vrn_file", out_key |-> "gvcf", name |-> d.description],
          [vrn_key |-> "vrn_file_joint", out_key |-> "calls", name |-> BatchName(d)] >>
  ELSE << [vrn_key |-> "vrn_file", out_key |-> "calls", name |-> BatchName(d)] >>

\* line 35
CurNameNoSep(d, e) == FmtNoSep(e.name, d.variantcaller)
CurName(d, e) == Fmt(e.name, d.variantcaller)

\* line 36
NotAddedAlways(cur_name, seen) == TRUE
NotAdded(cur_name, seen) == cur_name \notin seen

\* lines 37-39
OutDir(out_key) == IF out_key = "calls" THEN DirCalls ELSE DirGvcf
OutFile(d, e) ==
  Join(Join(Join(d.work_dir, DirVariants), OutDir(e.out_key)), CurName(d, e) \o VcfGz)

CvIdle ==
  /\ cv_items = <<>>
  /\ cv_files = <<>>
  /\ cv_pc = "idle"
  /\ csvs = {}
  /\ pngs = {}
  /\ cv_ret = [grading_plots |-> <<>>, grading_summary |-> None]
  /\ cv_written = {}

VcIdle ==
  /\ items = <<>>
  /\ vc_pc = "idle"
  /\ idx = 0
  /\ to_add = <<>>
  /\ added = {}
  /\ out = [validate |-> [grading_plots |-> <<>>, grading_summary |-> None],
            calls |-> <<>>, gvcf |-> <<>>]
  /\ out_file = None
  /\ vc_files = <<>>
  /\ emitted = <<>>

VcInit ==
  /\ CvIdle
  /\ PpIdle
  /\ RunsIdle
  /\ items \in SeqsUpTo(VcRecords, MaxItems)
  /\ vc_pc = "start"
  /\ idx = 0
  /\ to_add = <<>>
  /\ added = {}
  /\ out = [validate |-> [grading_plots |-> <<>>, grading_summary |-> None],
            calls |-> <<>>, gvcf |-> <<>>]
  /\ out_file = None
  /\ vc_files = <<>>
  /\ emitted = <<>>

\* lines 19-22; with no record, line 61 indexes items[0] and raises
VcStart ==
  /\ vc_pc = "start"
  /\ IF ~OneCsv(Csvs(items)) /\ items = <<>>
     THEN /\ vc_pc' = "error"
          /\ UNCHANGED <<out, vc_files>>
     ELSE /\ vc_pc' = "next"
          /\ out' = [out EXCEPT !.validate = CombineResult(items)]
          /\ vc_files' = IF OneCsv(Csvs(items)) THEN vc_files
                         ELSE (CombinedPath(items) :> [src |-> None, bgzip |-> FALSE]) @@ vc_files
  /\ VcOnly
  /\ UNCHANGED <<items, idx, to_add, added, out_file, emitted>>

\* lines 23-33: the next record; one without a call file adds nothing
VcNextItem ==
  /\ vc_pc = "next"
  /\ idx < Len(items)
  /\ idx' = idx + 1
  /\ to_add' = IF Truthy(items[idx + 1].vrn_file) THEN ToAdd(items[idx + 1]) ELSE <<>>
  /\ vc_pc' = "emit"
  /\ VcOnly
  /\ UNCHANGED <<items, added, out, out_file, vc_files, emitted>>

\* lines 34-40: the name is new; it is added and the output directory made
VcCheck ==
  /\ vc_pc = "emit"
  /\ to_add # <<>>
  /\ NotAdded(CurName(items[idx], Head(to_add)), added)
  /\ out_file' = OutFile(items[idx], Head(to_add))
  /\ added' = added \cup {CurName(items[idx], Head(to_add))}
  /\ vc_pc' = "copy"
  /\ VcOnly
  /\ UNCHANGED <<items, idx, to_add, out, vc_files, emitted>>

\* line 36, the name was added before: nothing is written
VcSkip ==
  /\ vc_pc = "emit"
  /\ to_add # <<>>
  /\ ~NotAdded(CurName(items[idx], Head(to_add)), added)
  /\ to_add' = Tail(to_add)
  /\ VcOnly
  /\ UNCHANGED <<items, vc_pc, idx, added, out, out_file, vc_files, emitted>>

\* line 43: utils.copy_plus(os.path.realpath(data[vrn_key]), out_file)
VcCopy ==
  /\ vc_pc = "copy"
  /\ vc_files' = (out_file :> [src |-> items[idx][Head(to_add).vrn_key], bgzip |-> FALSE])
                   @@ vc_files
  /\ vc_pc' = "bgzip"
  /\ VcOnly
  /\ UNCHANGED <<items, idx, to_add, added, out, out_file, emitted>>

\* line 44 left out: the copy is registered as it is
VcBgzipSkipped ==
  /\ vc_pc = "bgzip"
  /\ vc_pc' = "append"
  /\ VcOnly
  /\ UNCHANGED <<items, idx, to_add, added, out, out_file, vc_files, emitted>>

\* line 44: vcfutils.bgzip_and_index(out_file, data["config"])
VcBgzip ==
  /\ vc_pc = "bgzip"
  /\ vc_files' = [vc_files EXCEPT ![out_file].bgzip = TRUE]
  /\ vc_pc' = "append"
  /\ VcOnly
  /\ UNCHANGED <<items, idx, to_add, added, out, out_file, emitted>>

\* line 45: out["variants"][out_key].append(out_file)
VcAppend ==
  /\ vc_pc = "append"
  /\ out' = [out EXCEPT ![Head(to_add).out_key] = Append(@, out_file)]
  /\ emitted' = Append(emitted, [out_key |-> Head(to_add).out_key,
                                  name |-> Head(to_add).name,
                                  caller |-> items[idx].variantcaller,
                                  by |-> idx,
                                  file |-> out_file])
  /\ to_add' = Tail(to_add)
  /\ vc_pc' = "emit"
  /\ VcOnly
  /\ UNCHANGED <<items, idx, added, out_file, vc_files>>

\* line 34, the inner loop ends
VcEndRecord ==
  /\ vc_pc = "emit"
  /\ to_add = <<>>
  /\ vc_pc' = "next"
  /\ VcOnly
  /\ UNCHANGED <<items, idx, to_add, added, out, out_file, vc_files, emitted>>

\* line 46
VcReturn ==
  /\ vc_pc = "next"
  /\ idx = Len(items)
  /\ vc_pc' = "done"
  /\ VcOnly
  /\ UNCHANGED <<items, idx, to_add, added, out, out_file, vc_files, emitted>>

VcNext ==
  \/ VcStart \/ VcNextItem \/ VcCheck \/ VcSkip \/ VcCopy
  \/ VcBgzip \/ VcAppend \/ VcEndRecord \/ VcReturn

SpecVC == VcInit /\ [][VcNext]_vars

(***************************************************************************)
(* summarize_vc called more than once, the calls interleaved               *)
(***************************************************************************)
\* The calls in flight. Each call runs lines 19-46 on its own arguments and
\* locals; the calls share the work directory on disk.
Runs == {"first", "second"}

RunRecords ==
  [description : {NameA, NameB},
   batch : {<<>>},
   vrn_file : {FileX},
   vrn_file_joint : {None, FileJ},
   variantcaller : {CallerC},
   work_dir : {WorkDir},
   validate : {NoValidate}]

NoOut ==
  [validate |-> [grading_plots |-> <<>>, grading_summary |-> None], calls |-> <<>>, gvcf |-> <<>>]

\* line 22: `added` is a local of the call, empty when the call starts
AddedOf(r) == runs[r].added

RunsInit ==
  /\ VcIdle
  /\ CvIdle
  /\ PpIdle
  /\ runs \in [Runs -> [items : SeqsUpTo(RunRecords, MaxItems), pc : {"start"}, idx : {0},
                        to_add : {<<>>}, added : {{}}, out : {NoOut}, out_file : {None}]]
  /\ disk = <<>>
  /\ written = <<>>

\* lines 19-22; with no record, line 61 indexes items[0] and raises
RunStart(r) ==
  /\ runs[r].pc = "start"
  /\ IF ~OneCsv(Csvs(runs[r].items)) /\ runs[r].items = <<>>
     THEN /\ runs' = [runs EXCEPT ![r].pc = "error"]
          /\ UNCHANGED disk
     ELSE /\ runs' = [runs EXCEPT ![r].pc = "next",
                                  ![r].out.validate = CombineResult(runs[r].items)]
          /\ disk' = IF OneCsv(Csvs(runs[r].items)) THEN disk
                     ELSE (CombinedPath(runs[r].items) :> [src |-> None, bgzip |-> FALSE]) @@ disk
  /\ RunsOnly
  /\ UNCHANGED written

\* lines 23-33
RunNextItem(r) ==
  /\ runs[r].pc = "next"
  /\ runs[r].idx < Len(runs[r].items)
  /\ runs' = [runs EXCEPT ![r].idx = @ + 1,
                          ![r].to_add = IF Truthy(runs[r].items[runs[r].idx + 1].vrn_file)
                                        THEN ToAdd(runs[r].items[runs[r].idx + 1]) ELSE <<>>,
                          ![r].pc = "emit"]
  /\ RunsOnly
  /\ UNCHANGED <<disk, written>>

\* lines 34-40
RunCheck(r) ==
  /\ runs[r].pc = "emit"
  /\ runs[r].to_add # <<>>
  /\ NotAdded(CurName(runs[r].items[runs[r].idx], Head(runs[r].to_add)), AddedOf(r))
  /\ runs' = [runs EXCEPT ![r].out_file = OutFile(runs[r].items[runs[r].idx], Head(runs[r].to_add)),
                          ![r].added = @ \cup {CurName(runs[r].items[runs[r].idx],
                                                       Head(runs[r].to_add))},
                          ![r].pc = "copy"]
  /\ RunsOnly
  /\ UNCHANGED <<disk, written>>

\* line 36, the name is in the call's `added`
RunSkip(r) ==
  /\ runs[r].pc = "emit"
  /\ runs[r].to_add # <<>>
  /\ ~NotAdded(CurName(runs[r].items[runs[r].idx], Head(runs[r].to_add)), AddedOf(r))
  /\ runs' = [runs EXCEPT ![r].to_add = Tail(@)]
  /\ RunsOnly
  /\ UNCHANGED <<disk, written>>

\* line 43
RunCopy(r) ==
  /\ runs[r].pc = "copy"
  /\ disk' = (runs[r].out_file :>
                [src |-> runs[r].items[runs[r].idx][Head(runs[r].to_add).vrn_key],
                 bgzip |-> FALSE]) @@ disk
  /\ runs' = [runs EXCEPT ![r].pc = "bgzip"]
  /\ RunsOnly
  /\ UNCHANGED written

\* line 44
RunBgzip(r) ==
  /\ runs[r].pc = "bgzip"
  /\ disk' = [disk EXCEPT ![runs[r].out_file].bgzip = TRUE]
  /\ runs' = [runs EXCEPT ![r].pc = "append"]
  /\ RunsOnly
  /\ UNCHANGED written

\* line 45
RunAppend(r) ==
  /\ runs[r].pc = "append"
  /\ runs' = [runs EXCEPT ![r].out[Head(runs[r].to_add).out_key] = Append(@, runs[r].out_file),
                          ![r].to_add = Tail(@),
                          ![r].pc = "emit"]
  /\ written' = Append(written, [run |-> r,
                                 out_key |-> Head(runs[r].to_add).out_key,
                                 name |-> Head(runs[r].to_add).name,
                                 caller |-> runs[r].items[runs[r].idx].variantcaller,
                                 file |-> runs[r].out_file,
                                 bgzip |-> disk[runs[r].out_file].bgzip])
  /\ RunsOnly
  /\ UNCHANGED disk

\* line 34, the inner loop ends
RunEndRecord(r) ==
  /\ runs[r].pc = "emit"
  /\ runs[r].to_add = <<>>
  /\ runs' = [runs EXCEPT ![r].pc = "next"]
  /\ RunsOnly
  /\ UNCHANGED <<disk, written>>

\* line 46
RunReturn(r) ==
  /\ runs[r].pc = "next"
  /\ runs[r].idx = Len(runs[r].items)
  /\ runs' = [runs EXCEPT ![r].pc = "done"]
  /\ RunsOnly
  /\ UNCHANGED <<disk, written>>

RunsNext ==
  \E r \in Runs :
    \/ RunStart(r) \/ RunNextItem(r) \/ RunCheck(r) \/ RunSkip(r) \/ RunCopy(r)
    \/ RunBgzip(r) \/ RunAppend(r) \/ RunEndRecord(r) \/ RunReturn(r)

SpecRuns == RunsInit /\ [][RunsNext]_vars

(***************************************************************************)
(* _combine_validations as a run                                           *)
(***************************************************************************)
MaxCvItems == 3

Report1 == <<"/", "r", "1">>
Report2 == <<"/", "r", "2">>
Report3 == <<"/", "r", "3">>
ReportPaths == {Report1, Report2, Report3}
Plot1 == <<"/", "p", "1">>
Plot2 == <<"/", "p", "2">>

\* The texts a report may hold: header and a row, header and another row, a
\* different header and a last row with no newline, nothing.
ReportTexts ==
  { <<"h", "\n", "a", "\n">>, <<"h", "\n", "b", "\n">>, <<"g", "\n", "c">>, <<>> }

CvRecords ==
  [validate : [grading_summary : {None} \cup ReportPaths,
               grading_plots : {<<>>, <<Plot2, Plot1>>}],
   work_dir : {WorkDir}]

CvInit ==
  /\ VcIdle
  /\ PpIdle
  /\ RunsIdle
  /\ cv_items \in SeqsUpTo(CvRecords, MaxCvItems)
  /\ cv_files \in [ReportPaths -> ReportTexts]
  /\ cv_pc = "start"
  /\ csvs = {}
  /\ pngs = {}
  /\ cv_ret = [grading_plots |-> <<>>, grading_summary |-> None]
  /\ cv_written = {}

\* lines 51-57
CvCollect ==
  /\ cv_pc = "start"
  /\ csvs' = Csvs(cv_items)
  /\ pngs' = Pngs(cv_items)
  /\ cv_pc' = "collected"
  /\ CvOnly
  /\ UNCHANGED <<cv_items, cv_files, cv_ret, cv_written>>

\* lines 58-59 and 71: one distinct report is returned as it is
CvSingle ==
  /\ cv_pc = "collected"
  /\ OneCsv(csvs)
  /\ cv_ret' = CombineResult(cv_items)
  /\ cv_pc' = "done"
  /\ CvOnly
  /\ UNCHANGED <<cv_items, cv_files, csvs, pngs, cv_written>>

\* lines 60-71: the reports are merged into the combined file
CvMerge ==
  /\ cv_pc = "collected"
  /\ ~OneCsv(csvs)
  /\ cv_items # <<>>
  /\ cv_files' = (CombinedPath(cv_items) :> MergeFrom(CsvOrder(csvs), cv_files, 1)) @@ cv_files
  /\ cv_written' = cv_written \cup {CombinedPath(cv_items)}
  /\ cv_ret' = CombineResult(cv_items)
  /\ cv_pc' = "done"
  /\ CvOnly
  /\ UNCHANGED <<cv_items, csvs, pngs>>

\* line 61 with no record: items[0] raises IndexError
CvRaise ==
  /\ cv_pc = "collected"
  /\ ~OneCsv(csvs)
  /\ cv_items = <<>>
  /\ cv_pc' = "error"
  /\ CvOnly
  /\ UNCHANGED <<cv_items, cv_files, csvs, pngs, cv_ret, cv_written>>

CvNext == CvCollect \/ CvSingle \/ CvMerge \/ CvRaise

SpecCV == CvInit /\ [][CvNext]_vars

\* The lines of a text, each with its newline, as iterating a file gives them.
RECURSIVE LinesOf(_)
LinesOf(c) ==
  IF c = <<>> THEN <<>>
  ELSE IF \E k \in 1..Len(c) : c[k] = "\n"
       THEN LET k == CHOOSE n \in 1..Len(c) : c[n] = "\n" /\ \A j \in 1..(n - 1) : c[j] # "\n"
            IN <<SubSeq(c, 1, k)>> \o LinesOf(SubSeq(c, k + 1, Len(c)))
       ELSE <<c>>

RECURSIVE Flatten(_)
Flatten(ls) == IF ls = <<>> THEN <<>> ELSE Head(ls) \o Flatten(Tail(ls))

\* The reports in ascending path order.
Ascending(S) ==
  CHOOSE q \in [1..Cardinality(S) -> S] :
    \A i, j \in 1..Cardinality(S) : i < j => LexLess(q[i], q[j])

\* The non-header lines of the reports q[i..], in order.
RECURSIVE RowsFrom(_, _)
RowsFrom(q, i) ==
  IF i > Len(q) THEN <<>>
  ELSE (IF LinesOf(cv_files[q[i]]) = <<>> THEN <<>> ELSE Tail(LinesOf(cv_files[q[i]])))
       \o RowsFrom(q, i + 1)

\* The header line of the first report, if it has one.
HeaderOf(q) ==
  IF LinesOf(cv_files[q[1]]) = <<>> THEN <<>> ELSE <<Head(LinesOf(cv_files[q[1]]))>>

\* C10: with exactly one distinct report path, that path is returned and no
\* file is written; with several, the result is a new file under
\* <work_dir>/validation/ holding the header line of the first report in
\* sorted path order, then the non-header lines of every report in that
\* order, and no other header line.
C10_MergeReports ==
  cv_pc = "done" =>
    LET S == Csvs(cv_items) IN
    /\ Cardinality(S) = 1 =>
          /\ cv_ret.grading_summary \in S
          /\ cv_written = {}
          /\ DOMAIN cv_files = ReportPaths
    /\ Cardinality(S) > 1 =>
          /\ cv_ret.grading_summary =
               cv_items[1].work_dir \o <<"/">> \o DirValidation \o <<"/">> \o CombinedCsv
          /\ cv_ret.grading_summary \notin ReportPaths
          /\ cv_written = {cv_ret.grading_summary}
          /\ cv_files[cv_ret.grading_summary] =
               Flatten(HeaderOf(Ascending(S)) \o RowsFrom(Ascending(S), 1))

\* C10 witnesses: a run that returned its single report, and a run that merged
\* three reports with different texts.
C10_WitnessSingle ==
  /\ cv_pc = "done"
  /\ Len(cv_items) = 2
  /\ Cardinality(Csvs(cv_items)) = 1
  /\ cv_ret.grading_summary = Report2

C10_Witness ==
  /\ cv_pc = "done"
  /\ Csvs(cv_items) = ReportPaths
  /\ cv_items[1].validate.grading_summary = Report3
  /\ cv_files[Report1] = <<"h", "\n", "a", "\n">>
  /\ cv_files[Report2] = <<"g", "\n", "c">>
  /\ cv_files[Report3] = <<"h", "\n", "b", "\n">>
  /\ cv_files[cv_ret.grading_summary] = <<"h", "\n", "a", "\n", "c", "b", "\n">>

(***************************************************************************)
(* _get_batch_representative as a run                                      *)
(***************************************************************************)
MaxGroup == 2

FileW == <<"/", "w", "/", "c", "/", "x", ".", "v", "c", "f">>
Bam == <<"/", "i", "n", "/", "s", ".", "b", "a", "m">>

RepRecords ==
  [vrn_file : {Absent, None, FileX, FileW},
   vrn_file_joint : {Absent, FileJ, FileW},
   align_bam : {None, Bam},
   variantcaller : {CallerC},
   work_dir : {WorkDir},
   variant_regions : {None},
   vrn_stats : {None}]

NonEmptySeqsUpTo(S, n) == UNION {[1..k -> S] : k \in 1..n}

RepInit ==
  /\ VcIdle
  /\ CvIdle
  /\ RunsIdle
  /\ pp_single \in BOOLEAN
  /\ pp_items \in NonEmptySeqsUpTo(RepRecords, IF pp_single THEN 1 ELSE MaxGroup)
  /\ pp_items0 = pp_items
  /\ vrn_key \in {"vrn_file", "vrn_file_joint"}
  /\ data = NoRecord
  /\ data_ref = 0
  /\ ret_items = <<>>
  /\ orig_vrn_file = None
  /\ prio_vrn_file = None
  /\ fs = <<>>
  /\ pp_pc = "rep"
  /\ pp_err = NoError
  /\ pp_log = <<>>

\* lines 150-151 and 153-161, returning: the representative and the items given
RepReturn ==
  /\ pp_pc = "rep"
  /\ pp_single \/ ~RepBad(RepVals(pp_items, vrn_key))
  /\ data_ref' = IF pp_single THEN 1 ELSE RepPick(RepOut(pp_items, vrn_key, 1))
  /\ data' = pp_items[data_ref']
  /\ ret_items' = pp_items
  /\ pp_pc' = "selected"
  /\ PpOnly
  /\ UNCHANGED <<pp_single, pp_items, pp_items0, vrn_key, orig_vrn_file, prio_vrn_file,
                 fs, pp_err, pp_log>>

\* lines 159-160: ValueError("Incorrect values for %s: %s" % (key, list(vals)))
RepRaise ==
  /\ pp_pc = "rep"
  /\ ~pp_single
  /\ RepBad(RepVals(pp_items, vrn_key))
  /\ pp_err' = RepError(pp_items, vrn_key)
  /\ pp_pc' = "error"
  /\ PpOnly
  /\ UNCHANGED <<pp_single, pp_items, pp_items0, vrn_key, data, data_ref, ret_items,
                 orig_vrn_file, prio_vrn_file, fs, pp_log>>

RepNext == RepReturn \/ RepRaise

SpecRep == RepInit /\ [][RepNext]_vars

\* The members of the group given that define the shared field.
Defining == {i \in 1..Len(pp_items0) : pp_items0[i][vrn_key] # Absent}

\* C5: for a group whose members all carry the shared field with one value,
\* the representative is the first member that has the field set, it carries
\* that value, and the group returned is the group given, same members, same
\* order; and whenever a representative is returned for a group, it is the
\* first member that has the field set and the group is returned as given.
C5_Representative ==
  (pp_pc \in {"selected", "error"} /\ ~pp_single) =>
    /\ (/\ Defining = 1..Len(pp_items0)
        /\ \A i \in Defining : pp_items0[i][vrn_key] = pp_items0[1][vrn_key])
         => pp_pc = "selected" /\ data = pp_items0[1]
    /\ pp_pc = "selected" =>
         /\ Defining # {}
         /\ \A i \in Defining : (\A k \in Defining : i <= k) => data = pp_items0[i]
         /\ \A i \in Defining : data[vrn_key] = pp_items0[i][vrn_key]
         /\ ret_items = pp_items0
         /\ pp_items = pp_items0

\* C5 witness: a group of two different records that agree on the field gave
\* the first as representative.
C5_Witness ==
  /\ pp_pc = "selected"
  /\ ~pp_single
  /\ Len(pp_items0) = 2
  /\ Defining = {1, 2}
  /\ pp_items0[1] # pp_items0[2]
  /\ pp_items0[1][vrn_key] = FileW
  /\ data = pp_items0[1]
  /\ ret_items = pp_items0

\* C6: for a group, the call fails exactly when the members that define the
\* shared field give zero or several distinct values; the error carries the
\* field name and those values, and no representative is returned.
C6_ConsistencyError ==
  (pp_pc \in {"selected", "error"} /\ ~pp_single) =>
    LET distinct == {pp_items0[i][vrn_key] : i \in Defining} IN
    /\ pp_pc = "error" <=> (distinct = {} \/ \E v, w \in distinct : v # w)
    /\ pp_pc = "error" =>
         /\ pp_err.key = vrn_key
         /\ pp_err.vals = distinct
         /\ data = NoRecord
         /\ ret_items = <<>>
    /\ pp_pc = "selected" => \E v \in distinct : distinct = {v} /\ pp_err = NoError

\* C6 witness: a group whose members disagree on the field failed with both
\* values in the error.
C6_Witness ==
  /\ pp_pc = "error"
  /\ ~pp_single
  /\ pp_err.key = "vrn_file_joint"
  /\ pp_err.vals = {FileJ, FileW}

\* C6 second witness: a group with no member defining the field failed.
C6_WitnessZero ==
  /\ pp_pc = "error"
  /\ ~pp_single
  /\ Defining = {}
  /\ pp_err.vals = {}

(***************************************************************************)
(* _symlink_to_workdir as a run: applied twice                             *)
(***************************************************************************)
WorkDir2 == <<"/", "w", "2">>
FileW2 == <<"/", "w", "2", "/", "x", ".", "v", "c", "f">>
Regions == <<"/", "i", "n", "/", "r", ".", "b", "e", "d">>
RegionsW == <<"/", "w", "/", "r", ".", "b", "e", "d">>

StageRecords ==
  [vrn_file : {Absent, None, FileX, FileW, FileW2},
   vrn_file_joint : {Absent},
   align_bam : {None},
   variantcaller : {None, CallerC},
   work_dir : {WorkDir, WorkDir2},
   variant_regions : {None, Regions, RegionsW},
   vrn_stats : {None}]

\* The files a record names exist, each a file of its own.
FilesOf(d) ==
  LET named == {p \in {Get(d, "vrn_file"), Get(d, "vrn_file_joint"), d.variant_regions,
                        d.align_bam} : Truthy(p)}
      order == Sorted(named)
  IN [p \in named |-> CHOOSE i \in 1..Len(order) : order[i] = p]

\* pp_items0[1] is the record given, vrn_key the field, pp_log the records
\* returned by the applications so far.
StageInit ==
  /\ VcIdle
  /\ CvIdle
  /\ RunsIdle
  /\ pp_single = TRUE
  /\ pp_items0 \in [1..1 -> StageRecords]
  /\ pp_items = pp_items0
  /\ vrn_key \in {"vrn_file", "variant_regions"}
  /\ data = pp_items0[1]
  /\ data_ref = 0
  /\ ret_items = <<>>
  /\ orig_vrn_file = None
  /\ prio_vrn_file = None
  /\ fs = FilesOf(pp_items0[1])
  /\ pp_pc = "stage"
  /\ pp_err = NoError
  /\ pp_log = <<>>

\* _symlink_to_workdir(data, key) on the record the last application returned
StageApply ==
  /\ pp_pc = "stage"
  /\ Len(pp_log) < 2
  /\ data' = Symlinked(data, vrn_key)
  /\ fs' = SymlinkedFs(fs, data, vrn_key)
  /\ pp_log' = Append(pp_log, [stage |-> "symlink", given |-> data, result |-> data',
                               fs_before |-> fs, fs_after |-> fs'])
  /\ PpOnly
  /\ UNCHANGED <<pp_single, pp_items, pp_items0, vrn_key, data_ref, ret_items,
                 orig_vrn_file, prio_vrn_file, pp_pc, pp_err>>

\* _symlink_to_workdir(data, key) on the record first given, once more
StageAgain ==
  /\ pp_pc = "stage"
  /\ Len(pp_log) = 1
  /\ data' = Symlinked(pp_items0[1], vrn_key)
  /\ fs' = SymlinkedFs(fs, pp_items0[1], vrn_key)
  /\ pp_log' = Append(pp_log, [stage |-> "symlink", given |-> pp_items0[1], result |-> data',
                               fs_before |-> fs, fs_after |-> fs'])
  /\ PpOnly
  /\ UNCHANGED <<pp_single, pp_items, pp_items0, vrn_key, data_ref, ret_items,
                 orig_vrn_file, prio_vrn_file, pp_pc, pp_err>>

StageNext == StageApply \/ StageAgain

SpecStage == StageInit /\ [][StageNext]_vars

\* p lies under the directory w: it is w, a "/", and more.
LiesUnder(p, w) == Len(p) > Len(w) /\ SubSeq(p, 1, Len(w) + 1) = w \o <<"/">>

\* The path <work_dir>/<variant_caller or "precalled">/<basename> of a path p.
ExpectedTarget(d, p) ==
  d.work_dir \o <<"/">>
    \o (IF d.variantcaller = None THEN Precalled ELSE d.variantcaller)
    \o <<"/">> \o Basename(p)

C7_WitnessInside ==
  /\ Len(pp_log) = 2
  /\ vrn_key = "variant_regions"
  /\ pp_items0[1].variant_regions = RegionsW
  /\ pp_items0[1].work_dir = WorkDir
  /\ data = pp_items0[1]
  /\ fs = pp_log[1].fs_before

(***************************************************************************)
(* postprocess_variants                                                    *)
(***************************************************************************)
Stats == <<"/", "w", "/", "c", "/", "s", ".", "t", "x", "t">>

PpRecords ==
  [vrn_file : {Absent, None, FileX, FileW},
   vrn_file_joint : {Absent, None, FileJ},
   align_bam : {None, Bam},
   variantcaller : {None, CallerC},
   work_dir : {WorkDir},
   variant_regions : {None, Regions},
   vrn_stats : {None}]

\* The members of a group share their configuration and alignment.
SameConfig(its) ==
  \A i \in 1..Len(its) :
    /\ its[i].align_bam = its[1].align_bam
    /\ its[i].variantcaller = its[1].variantcaller
    /\ its[i].variant_regions = its[1].variant_regions

\* The files the records name exist, each a file of its own.
FilesOfAll(its) ==
  LET named == UNION {DOMAIN FilesOf(its[i]) : i \in 1..Len(its)}
      order == Sorted(named)
  IN [p \in named |-> CHOOSE i \in 1..Len(order) : order[i] = p]

PpInit ==
  /\ VcIdle
  /\ CvIdle
  /\ RunsIdle
  /\ pp_single \in BOOLEAN
  /\ pp_items \in NonEmptySeqsUpTo(PpRecords, IF pp_single THEN 1 ELSE MaxGroup)
  /\ SameConfig(pp_items)
  /\ pp_items0 = pp_items
  /\ vrn_key = "vrn_file"
  /\ data = NoRecord
  /\ data_ref = 0
  /\ ret_items = <<>>
  /\ orig_vrn_file = None
  /\ prio_vrn_file = None
  /\ fs = FilesOfAll(pp_items)
  /\ pp_pc = "start"
  /\ pp_err = NoError
  /\ pp_log = <<>>

\* What a collaborator does with the call file it is given: it returns the
\* path it was given, or writes a new file at a path of its own, or makes that
\* path a link to the file it was given.
OutLetter(stage) ==
  CASE stage = "effects" -> "e" [] stage = "finalize" -> "f" [] stage = "filtration" -> "v"
    [] stage = "prioritize" -> "p" [] stage = "germline" -> "g" [] OTHER -> "d"

OutPath(d, stage) ==
  Join(Join(d.work_dir, CallerDir(d)), <<OutLetter(stage), ".", "v", "c", "f">>)

NewFile(files) ==
  CHOOSE n \in 1..(Cardinality(DOMAIN files) + 1) : \A p \in DOMAIN files : files[p] # n

Returned(cur, d, stage, kind) == IF kind = "same" THEN cur ELSE OutPath(d, stage)

Written(files, cur, d, stage, kind) ==
  CASE kind = "same" -> files
    [] kind = "new" -> (OutPath(d, stage) :> NewFile(files)) @@ files
    [] OTHER -> (OutPath(d, stage) :> files[cur]) @@ files

Kinds(stage) == IF stage = "prioritize" THEN {"same", "new", "alias"} ELSE {"same", "new"}

\* os.path.samefile(a, b)
SameFileByName(files, a, b) == a = b
SameFile(files, a, b) == files[a] = files[b]

\* line 107
PrioChangedAlways(files, prio, cur) == TRUE
PrioChangedFile(files, prio, cur) == ~SameFile(files, prio, cur)
PrioChanged(files, prio, cur) == prio # cur

\* line 112: dd.get_align_bam(data)
RunsDamageAlways(d) == TRUE
RunsDamage(d) == Truthy(d.align_bam)

\* A stage's entry in the history.
Entry(stage, given, result, before, after) ==
  [stage |-> stage, given |-> given, result |-> result, fs_before |-> before, fs_after |-> after]

\* data[field] = value, on the object `data` is
Assign(field, value) ==
  /\ data' = [data EXCEPT ![field] = value]
  /\ pp_items' = IF data_ref = 0 THEN pp_items ELSE [pp_items EXCEPT ![data_ref] = data']

\* lines 78-82: the shared field is the joint call file if the first record of
\* a group has the key
VrnKeyAny(single, its) ==
  IF ~single /\ \E i \in 1..Len(its) : its[i].vrn_file_joint # Absent
  THEN "vrn_file_joint" ELSE "vrn_file"
VrnKey(single, its) ==
  IF ~single /\ its[1].vrn_file_joint # Absent THEN "vrn_file_joint" ELSE "vrn_file"

\* lines 78-82
PpStart ==
  /\ pp_pc = "start"
  /\ vrn_key' = VrnKey(pp_single, pp_items)
  /\ pp_pc' = "rep"
  /\ PpOnly
  /\ UNCHANGED <<pp_single, pp_items, pp_items0, data, data_ref, ret_items, orig_vrn_file,
                 prio_vrn_file, fs, pp_err, pp_log>>

\* lines 84-88; unpack_tarballs gives back the records it was given
PpOrig ==
  /\ pp_pc = "selected"
  /\ orig_vrn_file' = Get(data, vrn_key)
  /\ pp_pc' = "link_vrn"
  /\ PpOnly
  /\ UNCHANGED <<pp_single, pp_items, pp_items0, vrn_key, data, data_ref, ret_items,
                 prio_vrn_file, fs, pp_err, pp_log>>

\* line 89: tz.update_in gives a new record when the file is linked
PpLinkVrn ==
  /\ pp_pc = "link_vrn"
  /\ data' = Symlinked(data, vrn_key)
  /\ fs' = SymlinkedFs(fs, data, vrn_key)
  /\ data_ref' = IF NeedsLink(data, vrn_key) THEN 0 ELSE data_ref
  /\ pp_pc' = "link_regions"
  /\ PpOnly
  /\ UNCHANGED <<pp_single, pp_items, pp_items0, vrn_key, ret_items, orig_vrn_file,
                 prio_vrn_file, pp_err, pp_log>>

\* line 90
PpLinkRegions ==
  /\ pp_pc = "link_regions"
  /\ data' = Symlinked(data, "variant_regions")
  /\ fs' = SymlinkedFs(fs, data, "variant_regions")
  /\ data_ref' = IF NeedsLink(data, "variant_regions") THEN 0 ELSE data_ref
  /\ pp_pc' = "effects"
  /\ PpOnly
  /\ UNCHANGED <<pp_single, pp_items, pp_items0, vrn_key, ret_items, orig_vrn_file,
                 prio_vrn_file, pp_err, pp_log>>

\* line 91, no call file: no stage runs
PpNoCalls ==
  /\ pp_pc = "effects"
  /\ ~Truthy(Get(data, vrn_key))
  /\ pp_pc' = "restore"
  /\ PpOnly
  /\ UNCHANGED <<pp_single, pp_items, pp_items0, vrn_key, data, data_ref, ret_items,
                 orig_vrn_file, prio_vrn_file, fs, pp_err, pp_log>>

\* lines 92-97: effects.add_to_vcf gives an annotated file or None, and stats or None
PpEffects ==
  /\ pp_pc = "effects"
  /\ Truthy(Get(data, vrn_key))
  /\ \E kind \in Kinds("effects"), vrn_stats \in {None, Stats} :
       /\ fs' = Written(fs, data[vrn_key], data, "effects", kind)
       /\ data' = [data EXCEPT ![vrn_key] = Returned(data[vrn_key], data, "effects", kind),
                                !.vrn_stats = IF Truthy(vrn_stats) THEN vrn_stats ELSE @]
       /\ pp_items' = IF data_ref = 0 THEN pp_items ELSE [pp_items EXCEPT ![data_ref] = data']
       /\ pp_log' = Append(pp_log, Entry("effects", data[vrn_key], data'[vrn_key], fs, fs'))
  /\ pp_pc' = "finalize"
  /\ PpOnly
  /\ UNCHANGED <<pp_single, pp_items0, vrn_key, data_ref, ret_items, orig_vrn_file,
                 prio_vrn_file, pp_err>>

\* lines 98-100: annotation.finalize_vcf
PpFinalize ==
  /\ pp_pc = "finalize"
  /\ \E kind \in Kinds("finalize") :
       /\ fs' = Written(fs, data[vrn_key], data, "finalize", kind)
       /\ Assign(vrn_key, Returned(data[vrn_key], data, "finalize", kind))
       /\ pp_log' = Append(pp_log, Entry("finalize", data[vrn_key], data'[vrn_key], fs, fs'))
  /\ pp_pc' = "filtration"
  /\ PpOnly
  /\ UNCHANGED <<pp_single, pp_items0, vrn_key, data_ref, ret_items, orig_vrn_file,
                 prio_vrn_file, pp_err>>

\* lines 101-104: variant_filtration
PpFilter ==
  /\ pp_pc = "filtration"
  /\ \E kind \in Kinds("filtration") :
       /\ fs' = Written(fs, data[vrn_key], data, "filtration", kind)
       /\ Assign(vrn_key, Returned(data[vrn_key], data, "filtration", kind))
       /\ pp_log' = Append(pp_log, Entry("filtration", data[vrn_key], data'[vrn_key], fs, fs'))
  /\ pp_pc' = "prioritize"
  /\ PpOnly
  /\ UNCHANGED <<pp_single, pp_items0, vrn_key, data_ref, ret_items, orig_vrn_file,
                 prio_vrn_file, pp_err>>

\* lines 105-106: prioritize.handle_vcf_calls
PpPrioritize ==
  /\ pp_pc = "prioritize"
  /\ \E kind \in Kinds("prioritize") :
       /\ fs' = Written(fs, data[vrn_key], data, "prioritize", kind)
       /\ prio_vrn_file' = Returned(data[vrn_key], data, "prioritize", kind)
       /\ pp_log' = Append(pp_log, Entry("prioritize", data[vrn_key], prio_vrn_file', fs, fs'))
  /\ pp_pc' = "prio_check"
  /\ PpOnly
  /\ UNCHANGED <<pp_single, pp_items, pp_items0, vrn_key, data, data_ref, ret_items,
                 orig_vrn_file, pp_err>>

\* lines 107-110 without line 108: germline.extract is given the record as
\* filtration left it
PpGermlineStale ==
  /\ pp_pc = "prio_check"
  /\ PrioChanged(fs, prio_vrn_file, data[vrn_key])
  /\ \E kind \in Kinds("germline") :
       /\ fs' = Written(fs, data[vrn_key], data, "germline", kind)
       /\ Assign(vrn_key, Returned(data[vrn_key], data, "germline", kind))
       /\ pp_log' = Append(pp_log, Entry("germline", data[vrn_key], data'[vrn_key], fs, fs'))
  /\ pp_pc' = "damage"
  /\ PpOnly
  /\ UNCHANGED <<pp_single, pp_items0, vrn_key, data_ref, ret_items, orig_vrn_file,
                 prio_vrn_file, pp_err>>

\* lines 107-110: the prioritized file is taken and germline.extract runs
PpGermline ==
  /\ pp_pc = "prio_check"
  /\ PrioChanged(fs, prio_vrn_file, data[vrn_key])
  /\ \E kind \in Kinds("germline") :
       /\ fs' = Written(fs, prio_vrn_file, data, "germline", kind)
       /\ Assign(vrn_key, Returned(prio_vrn_file, data, "germline", kind))
       /\ pp_log' = Append(pp_log, Entry("germline", prio_vrn_file, data'[vrn_key], fs, fs'))
  /\ pp_pc' = "damage"
  /\ PpOnly
  /\ UNCHANGED <<pp_single, pp_items0, vrn_key, data_ref, ret_items, orig_vrn_file,
                 prio_vrn_file, pp_err>>

\* line 107, the prioritized path is the path given
PpNoGermline ==
  /\ pp_pc = "prio_check"
  /\ ~PrioChanged(fs, prio_vrn_file, data[vrn_key])
  /\ pp_pc' = "damage"
  /\ PpOnly
  /\ UNCHANGED <<pp_single, pp_items, pp_items0, vrn_key, data, data_ref, ret_items,
                 orig_vrn_file, prio_vrn_file, fs, pp_err, pp_log>>

\* lines 112-114: damage.run_filter
PpDamage ==
  /\ pp_pc = "damage"
  /\ RunsDamage(data)
  /\ \E kind \in Kinds("damage") :
       /\ fs' = Written(fs, data[vrn_key], data, "damage", kind)
       /\ Assign(vrn_key, Returned(data[vrn_key], data, "damage", kind))
       /\ pp_log' = Append(pp_log, Entry("damage", data[vrn_key], data'[vrn_key], fs, fs'))
  /\ pp_pc' = "restore"
  /\ PpOnly
  /\ UNCHANGED <<pp_single, pp_items0, vrn_key, data_ref, ret_items, orig_vrn_file,
                 prio_vrn_file, pp_err>>

\* line 112, no aligned reads
PpNoDamage ==
  /\ pp_pc = "damage"
  /\ ~RunsDamage(data)
  /\ pp_pc' = "restore"
  /\ PpOnly
  /\ UNCHANGED <<pp_single, pp_items, pp_items0, vrn_key, data, data_ref, ret_items,
                 orig_vrn_file, prio_vrn_file, fs, pp_err, pp_log>>

\* lines 115-117: the original path is put back if the file is the same file
PpRestore ==
  /\ pp_pc = "restore"
  /\ IF Truthy(orig_vrn_file) /\ SameFile(fs, data[vrn_key], orig_vrn_file)
     THEN Assign(vrn_key, orig_vrn_file)
     ELSE UNCHANGED <<data, pp_items>>
  /\ pp_log' = Append(pp_log, Entry("return", Get(data, vrn_key), Get(data', vrn_key), fs, fs))
  /\ pp_pc' = "done"
  /\ PpOnly
  /\ UNCHANGED <<pp_single, pp_items0, vrn_key, data_ref, ret_items, orig_vrn_file,
                 prio_vrn_file, fs, pp_err>>

PpNext ==
  \/ PpStart \/ RepReturn \/ RepRaise \/ PpOrig \/ PpLinkVrn \/ PpLinkRegions
  \/ PpNoCalls \/ PpEffects \/ PpFinalize \/ PpFilter \/ PpPrioritize
  \/ PpGermline \/ PpNoGermline \/ PpDamage \/ PpNoDamage \/ PpRestore

SpecPP == PpInit /\ [][PpNext]_vars

\* The history entries of one stage.
Ran(stage) == {n \in 1..Len(pp_log) : pp_log[n].stage = stage}

\* C8: when the call file the record holds after all stages is the same
\* underlying file as the call file given, the record returned names the path
\* given, not the linked or an intermediate path; when it is another file,
\* the record returned names the last stage's output.
C8_RestoreOriginal ==
  (pp_pc = "done" /\ Truthy(orig_vrn_file)) =>
    LET final == pp_log[Len(pp_log)].given IN
    /\ \E i \in 1..Len(pp_items0) : pp_items0[i][vrn_key] = orig_vrn_file
    /\ fs[final] = fs[orig_vrn_file] => data[vrn_key] = orig_vrn_file
    /\ fs[final] # fs[orig_vrn_file] => data[vrn_key] = final

\* C8 witness: the stages left the linked file as it was, and the path given,
\* outside the work directory, was put back.
C8_Witness ==
  /\ pp_pc = "done"
  /\ orig_vrn_file = FileX
  /\ Ran("filtration") # {}
  /\ pp_log[Len(pp_log)].given # FileX
  /\ StartsWith(pp_log[Len(pp_log)].given, WorkDir)
  /\ fs[pp_log[Len(pp_log)].given] = fs[FileX]
  /\ data[vrn_key] = FileX

\* C8 second witness: the stages made another file, which is returned.
C8_WitnessChanged ==
  /\ pp_pc = "done"
  /\ orig_vrn_file = FileX
  /\ fs[pp_log[Len(pp_log)].given] # fs[FileX]
  /\ data[vrn_key] = pp_log[Len(pp_log)].given

\* The states in which line 107 has been decided.
AfterPrioritization == pp_pc \in {"damage", "restore", "done"} /\ Ran("prioritize") # {}

\* C9: germline extraction runs if and only if prioritization changed the
\* identity of the call file, the underlying file and not the path text.
C9_GermlineIffFileChanged ==
  AfterPrioritization =>
    \A n \in Ran("prioritize") :
      Ran("germline") # {} <=> pp_log[n].fs_after[pp_log[n].result] # pp_log[n].fs_after[pp_log[n].given]

\* C9 as amended: germline extraction runs if and only if the path
\* prioritization returned differs, as text, from the path it was given; a
\* different path to the same underlying file runs it too.
C9_GermlineIffPathChanged ==
  AfterPrioritization =>
    \A n \in Ran("prioritize") :
      /\ Ran("germline") # {} <=> pp_log[n].result # pp_log[n].given
      /\ \A g \in Ran("germline") : g = n + 1 /\ pp_log[g].given = pp_log[n].result

\* C9 witness: prioritization returned another path to the same file, and
\* germline extraction ran.
C9_Witness ==
  /\ AfterPrioritization
  /\ Ran("germline") # {}
  /\ \E n \in Ran("prioritize") :
       /\ pp_log[n].result # pp_log[n].given
       /\ pp_log[n].fs_after[pp_log[n].result] = pp_log[n].fs_after[pp_log[n].given]

\* C9 second witness: prioritization returned the path given, and germline
\* extraction did not run.
C9_WitnessSame ==
  /\ pp_pc = "done"
  /\ Ran("germline") = {}
  /\ \E n \in Ran("prioritize") : pp_log[n].result = pp_log[n].given

(***************************************************************************)
(* summarize_vc: the claims                                                *)
(***************************************************************************)
\* The records that reach the inner loop (line 24).
HasCalls(i) == Truthy(items[i].vrn_file)

\* The registered outputs of one kind and one (name, caller) key.
EmittedFor(out_key, name, caller) ==
  {k \in 1..Len(emitted) :
     emitted[k].out_key = out_key /\ emitted[k].name = name /\ emitted[k].caller = caller}

\* C1: the manifest never holds two output files for one (name, variant_caller)
\* key: no two registered outputs share their name and caller, every file of
\* the manifest is a registered output, and no file is listed twice.
C1_OneOutputPerKey ==
  /\ \A i, j \in 1..Len(emitted) :
        (emitted[i].name = emitted[j].name /\ emitted[i].caller = emitted[j].caller) => i = j
  /\ Len(out.calls) + Len(out.gvcf) = Len(emitted)
  /\ Range(out.calls) \cup Range(out.gvcf) = {emitted[k].file : k \in 1..Len(emitted)}
  /\ Cardinality(Range(out.calls) \cup Range(out.gvcf)) = Len(emitted)

\* C1 witness: two records resolved to one key, and the run ended with one
\* output for it.
C1_Witness ==
  /\ vc_pc = "done"
  /\ Len(items) = 2
  /\ HasCalls(1) /\ HasCalls(2)
  /\ items[1].vrn_file_joint = None /\ items[2].vrn_file_joint = None
  /\ BatchName(items[1]) = BatchName(items[2])
  /\ items[1].variantcaller = items[2].variantcaller
  /\ Len(emitted) = 1
  /\ Len(out.calls) = 1

\* C2: the calls and the gvcf outputs are deduplicated independently, each by
\* its own (name, caller) key: at the end of a run every output a record asks
\* for is in the manifest under its own kind, whatever was emitted under the
\* other kind.
C2_KindsIndependent ==
  vc_pc = "done" =>
    \A i \in 1..Len(items) :
      HasCalls(i) =>
        \A n \in 1..Len(ToAdd(items[i])) :
          EmittedFor(ToAdd(items[i])[n].out_key, ToAdd(items[i])[n].name,
                     items[i].variantcaller) # {}

\* The case of C3: one batch of two distinct samples sharing a caller, each
\* with a call file and a joint call file.
BatchOfTwo ==
  /\ Len(items) = 2
  /\ HasCalls(1) /\ HasCalls(2)
  /\ items[1].vrn_file_joint # None /\ items[2].vrn_file_joint # None
  /\ items[1].batch # <<>> /\ items[2].batch # <<>>
  /\ items[1].batch[1] = items[2].batch[1]
  /\ items[1].description # items[2].description
  /\ items[1].variantcaller = items[2].variantcaller

\* C3: a batch of two samples with a joint call file gives one calls entry
\* named after the batch and two gvcf entries named after the samples, the
\* three names distinct.
C3_BatchOfTwoManifest ==
  (vc_pc = "done" /\ BatchOfTwo) =>
    /\ Len(out.calls) = 1
    /\ EmittedFor("calls", items[1].batch[1], items[1].variantcaller) # {}
    /\ Len(out.gvcf) = 2
    /\ EmittedFor("gvcf", items[1].description, items[1].variantcaller) # {}
    /\ EmittedFor("gvcf", items[2].description, items[2].variantcaller) # {}
    /\ Cardinality(Range(out.calls) \cup Range(out.gvcf)) = 3

\* The case of C4: every record has a call file and no joint call file.
NoJointCalls ==
  \A i \in 1..Len(items) : HasCalls(i) /\ items[i].vrn_file_joint = None

\* C4: records with a call file and no joint call file give no gvcf entry and
\* exactly one calls entry per distinct (batch or sample name, caller) key.
C4_OneCallsPerKey ==
  (vc_pc = "done" /\ NoJointCalls) =>
    /\ out.gvcf = <<>>
    /\ \A i \in 1..Len(items) :
         Cardinality(EmittedFor("calls", BatchName(items[i]), items[i].variantcaller)) = 1

\* The registered calls outputs whose formatted name "<name>-<caller>" is n.
CallsNamed(n) ==
  {k \in 1..Len(emitted) :
     emitted[k].out_key = "calls" /\ Fmt(emitted[k].name, emitted[k].caller) = n}

\* C4 as amended: records with a call file and no joint call file give no
\* gvcf entry and exactly one calls entry per distinct formatted name
\* "<batch or sample name>-<caller>"; keys whose formatted names coincide
\* share one entry.
C4_OneCallsPerName ==
  (vc_pc = "done" /\ NoJointCalls) =>
    /\ out.gvcf = <<>>
    /\ \A i \in 1..Len(items) :
         Cardinality(CallsNamed(Fmt(BatchName(items[i]), items[i].variantcaller))) = 1
    /\ Len(out.calls) =
         Cardinality({Fmt(BatchName(items[i]), items[i].variantcaller) : i \in 1..Len(items)})

\* C4 witness: two records with different keys and one formatted name ended
\* with a single calls entry.
C4_Witness ==
  /\ vc_pc = "done"
  /\ NoJointCalls
  /\ Len(items) = 2
  /\ BatchName(items[1]) # BatchName(items[2])
  /\ Fmt(BatchName(items[1]), items[1].variantcaller)
       = Fmt(BatchName(items[2]), items[2].variantcaller)
  /\ Len(out.calls) = 1
  /\ out.gvcf = <<>>

(***************************************************************************)
(* postprocess_variants: the records given                                 *)
(***************************************************************************)
\* C11: postprocess_variants never writes to a record it was given: at every
\* point of a run the single record, or each member of the group, the
\* representative included, has the field values it was given, so that the
\* members handed to the stages are the records as given.
C11_InputsUnchanged == pp_items = pp_items0

(***************************************************************************)
(* summarize_vc: calls at once                                             *)
(***************************************************************************)
\* C12: across calls of summarize_vc, interleaved in any way or one after the
\* other, the set of names already emitted is one shared resource: for one
\* output kind and one (name, variant_caller) key, at most one output is
\* emitted.
C12_OneOutputAcrossRuns ==
  \A i, j \in 1..Len(written) :
    (/\ written[i].out_key = written[j].out_key
     /\ written[i].name = written[j].name
     /\ written[i].caller = written[j].caller) => i = j

(***************************************************************************)
(* summarize_vc: the order of the steps of one output                      *)
(***************************************************************************)
\* The paths the manifest lists.
Manifest == Range(out.calls) \cup Range(out.gvcf)

\* The output path of a formatted name n under either kind.
PathsNamed(n) ==
  {WorkDir \o <<"/">> \o DirVariants \o <<"/">> \o k \o <<"/">> \o n \o VcfGz :
     k \in {DirCalls, DirGvcf}}

\* The output files on disk: all but the combined validation report.
Copied(files) == {p \in DOMAIN files : files[p].src # None}

\* One step of summarize_vc keeps the order insert, copy, compress, register.
C13_Step ==
  /\ \A n \in added' \ added :
       /\ added' = added \cup {n}
       /\ PathsNamed(n) \cap DOMAIN vc_files = {}
       /\ vc_files' = vc_files /\ out' = out
  /\ \A f \in Copied(vc_files') \ Copied(vc_files) :
       /\ \E n \in added : f \in PathsNamed(n)
       /\ ~vc_files'[f].bgzip
       /\ added' = added /\ out' = out
  /\ \A f \in Copied(vc_files) :
       (vc_files'[f].bgzip /\ ~vc_files[f].bgzip) => (f \notin Manifest /\ out' = out)
  /\ \A f \in Copied(vc_files) : f \in Copied(vc_files') /\ vc_files'[f].src = vc_files[f].src
  /\ \A f \in Manifest' \ Manifest :
       /\ f \in Copied(vc_files)
       /\ vc_files[f].bgzip
       /\ vc_files' = vc_files
  /\ Manifest \subseteq Manifest'

\* C13: for every output of summarize_vc the name is found absent and added
\* to the set, then the file is made by copying, then it is compressed and
\* indexed, and only then is its path registered; no path is in the manifest
\* before its file has been compressed and indexed.
C13_EmitOrder ==
  /\ [](\A f \in Manifest : f \in Copied(vc_files) /\ vc_files[f].bgzip)
  /\ [](\A f \in Copied(vc_files) : \E n \in added : f \in PathsNamed(n))
  /\ [][C13_Step]_vars

\* C13 witness: one output is registered, and a second one is copied and
\* compressed and not yet registered.
C13_Witness ==
  /\ Len(emitted) = 1
  /\ Cardinality(Manifest) = 1
  /\ \E f \in Copied(vc_files) : vc_files[f].bgzip /\ f \notin Manifest
  /\ \A f \in Manifest : vc_files[f].bgzip

(***************************************************************************)
(* postprocess_variants: the order of the stages                           *)
(***************************************************************************)
\* The place of a stage in the order of section 4.4.
StageRank(stage) ==
  CASE stage = "effects" -> 1 [] stage = "finalize" -> 2 [] stage = "filtration" -> 3
    [] stage = "prioritize" -> 4 [] stage = "germline" -> 5 [] stage = "damage" -> 6
    [] OTHER -> 7

\* The call file the first stage is to be given: the representative's, or
\* its link in the work directory when it lies outside.
StagedCalls ==
  IF StartsWith(orig_vrn_file, pp_items0[1].work_dir) THEN orig_vrn_file
  ELSE ExpectedTarget(pp_items0[1], orig_vrn_file)

\* C14: the stages that run do so in the order effect annotation, annotation
\* finalize, filtration, prioritization, germline extraction, damage
\* filtering, each at most once, each given the call file the stage before it
\* left, the first the staged call file; with no call file no stage runs and
\* the record is returned, no error raised.
C14_StageOrder ==
  /\ \A m, n \in 1..Len(pp_log) :
       m < n => StageRank(pp_log[m].stage) < StageRank(pp_log[n].stage)
  /\ \A n \in 1..Len(pp_log) : n > 1 => pp_log[n].given = pp_log[n - 1].result
  /\ (pp_log # <<>> /\ Truthy(orig_vrn_file)) => pp_log[1].given = StagedCalls
  /\ pp_pc = "done" => pp_log # <<>> /\ pp_log[Len(pp_log)].stage = "return"
  /\ (pp_pc \in {"restore", "done"} /\ ~Truthy(orig_vrn_file)) =>
       /\ \A n \in 1..Len(pp_log) : pp_log[n].stage = "return"
       /\ pp_err = NoError
       /\ Get(data, vrn_key) = orig_vrn_file
  /\ pp_pc = "error" => pp_log = <<>> /\ pp_err.key = vrn_key /\ data = NoRecord

\* C14 witness: all six stages ran, each writing a file of its own.
C14_Witness ==
  /\ pp_pc = "done"
  /\ Len(pp_log) = 7
  /\ \A n \in 1..6 : pp_log[n].result # pp_log[n].given
  /\ pp_log[5].stage = "germline"
  /\ pp_log[6].stage = "damage"

\* C14 second witness: a representative with no call file was returned, no
\* stage run.
C14_WitnessNoCalls ==
  /\ pp_pc = "done"
  /\ ~Truthy(orig_vrn_file)
  /\ Len(pp_log) = 1
  /\ ~pp_single

\* The prioritization entries whose result is the path given.
PrioUnchanged == {n \in Ran("prioritize") : pp_log[n].result = pp_log[n].given}

\* C15: if prioritization leaves the call file unchanged, the stages after it
\* are skipped: neither germline extraction nor damage filtering runs.
C15_UnchangedSkipsRest ==
  (pp_pc = "done" /\ PrioUnchanged # {}) =>
    Ran("germline") = {} /\ Ran("damage") = {}

\* C15 as amended: if prioritization returns the path it was given, germline
\* extraction is skipped; damage filtering is not: it runs, on that same
\* path, exactly when the record has an aligned-reads file.
C15_UnchangedSkipsGermline ==
  (pp_pc = "done" /\ PrioUnchanged # {}) =>
    /\ Ran("germline") = {}
    /\ Ran("damage") # {} <=> Truthy(pp_items0[1].align_bam)
    /\ \A n \in PrioUnchanged : pp_log[n + 1].stage \in {"damage", "return"}
                                /\ pp_log[n + 1].given = pp_log[n].given

\* C15 witness: prioritization returned the path given, germline extraction
\* was skipped and damage filtering ran.
C15_Witness ==
  /\ pp_pc = "done"
  /\ PrioUnchanged # {}
  /\ Ran("germline") = {}
  /\ Ran("damage") # {}
  /\ pp_items0[1].align_bam = Bam

\* C16: on a record with a call file, damage filtering runs if and only if
\* the record has an aligned-reads file when line 112 is reached; with none
\* it is passed over, no error raised, and the call file of the stage before
\* is the one kept.
C16_DamageIffAligned ==
  (pp_pc \in {"restore", "done"} /\ Truthy(orig_vrn_file)) =>
    /\ Ran("damage") # {} <=> Truthy(data.align_bam)
    /\ data.align_bam = pp_items0[1].align_bam
    /\ pp_err = NoError
    /\ (pp_pc = "done" /\ ~Truthy(data.align_bam)) =>
         /\ pp_log[Len(pp_log) - 1].stage \in {"prioritize", "germline"}
         /\ pp_log[Len(pp_log)].given = pp_log[Len(pp_log) - 1].result

\* C16 witness: a record with a call file and no aligned reads was returned
\* with the file germline extraction left, damage filtering not run.
C16_Witness ==
  /\ pp_pc = "done"
  /\ Truthy(orig_vrn_file)
  /\ data.align_bam = None
  /\ Ran("damage") = {}
  /\ Ran("germline") # {}
  /\ data[vrn_key] = pp_log[Len(pp_log) - 1].result

\* C16 second witness: a record with aligned reads had damage filtering run
\* after an unchanged prioritization.
C16_WitnessAligned ==
  /\ pp_pc = "done"
  /\ data.align_bam = Bam
  /\ Ran("damage") # {}
  /\ Ran("germline") = {}
  /\ \E n \in Ran("damage") : pp_log[n].result # pp_log[n].given

(***************************************************************************)
(* _combine_validations: no report at all                                  *)
(***************************************************************************)
\* No record carries a grading summary.
NoReports == \A i \in 1..Len(cv_items) : ~Truthy(cv_items[i].validate.grading_summary)

\* All plot paths of the records.
AllPlots ==
  {p \in {Plot1, Plot2} :
     \E i \in 1..Len(cv_items) : \E k \in 1..Len(cv_items[i].validate.grading_plots) :
       cv_items[i].validate.grading_plots[k] = p}

\* C17: with no report path at all, _combine_validations makes the file
\* grading-summary-combined.csv under <work_dir of the first record>/validation/,
\* with nothing in it, and returns its path, not an empty or absent report;
\* the plots returned are the union of all plot paths, sorted, each once.
C17_NoReportsEmptyFile ==
  (cv_pc = "done" /\ NoReports) =>
    LET path == cv_items[1].work_dir \o <<"/">> \o DirValidation \o <<"/">> \o CombinedCsv IN
    /\ cv_ret.grading_summary = path
    /\ Truthy(cv_ret.grading_summary)
    /\ cv_written = {path}
    /\ path \in DOMAIN cv_files
    /\ cv_files[path] = <<>>
    /\ \A q \in ReportPaths : cv_files[q] \in ReportTexts
    /\ Range(cv_ret.grading_plots) = AllPlots
    /\ \A m, n \in 1..Len(cv_ret.grading_plots) :
         m < n => LexLess(cv_ret.grading_plots[m], cv_ret.grading_plots[n])

\* C17 witness: two records with no report and the same two plots, out of
\* order, gave the empty combined file and the two plots in order.
C17_Witness ==
  /\ cv_pc = "done"
  /\ NoReports
  /\ Len(cv_items) = 2
  /\ cv_items[1].validate.grading_plots = <<Plot2, Plot1>>
  /\ cv_items[2].validate.grading_plots = <<Plot2, Plot1>>
  /\ cv_ret.grading_plots = <<Plot1, Plot2>>
  /\ cv_files[cv_ret.grading_summary] = <<>>

(***************************************************************************)
(* postprocess_variants: the shared field of a group                       *)
(***************************************************************************)
\* The members of the group given that lack the field chosen.
Lacking == (1..Len(pp_items0)) \ Defining

\* C18: for a group the shared field is chosen from the first member alone:
\* the joint call field exactly when the first record has that key, whatever
\* its value, and the plain call file field otherwise, whichever of the two
\* the other members carry; members lacking the field chosen take no part in
\* the consistency check and stay in the group handed to the stages.
C18_KeyFromFirstMember ==
  (~pp_single /\ pp_pc # "start") =>
    /\ vrn_key = "vrn_file_joint" <=> pp_items0[1].vrn_file_joint # Absent
    /\ vrn_key = "vrn_file" <=> pp_items0[1].vrn_file_joint = Absent
    /\ pp_pc # "rep" =>
         /\ pp_pc = "error" <=> Cardinality({pp_items0[i][vrn_key] : i \in Defining}) # 1
         /\ pp_pc # "error" =>
              /\ ret_items = pp_items0
              /\ Len(pp_items) = Len(pp_items0)
              /\ \A i \in Lacking : pp_items[i] = pp_items0[i]
              /\ data_ref \notin Lacking

\* C18 witness: the first member has no joint call key, the second has only
\* the joint call file: the plain call file was chosen and the run ended with
\* both members in the group.
C18_Witness ==
  /\ pp_pc = "done"
  /\ ~pp_single
  /\ Len(pp_items0) = 2
  /\ pp_items0[1].vrn_file_joint = Absent
  /\ pp_items0[1].vrn_file = FileX
  /\ pp_items0[2].vrn_file_joint = FileJ
  /\ pp_items0[2].vrn_file = Absent
  /\ vrn_key = "vrn_file"
  /\ Lacking = {2}
  /\ Len(ret_items) = 2

\* C18 second witness: the first member has the joint call key, with no
\* file, and the second has only a plain call file: the joint field was chosen.
C18_WitnessJoint ==
  /\ pp_pc = "done"
  /\ ~pp_single
  /\ Len(pp_items0) = 2
  /\ pp_items0[1].vrn_file_joint = None
  /\ pp_items0[2].vrn_file_joint = Absent
  /\ pp_items0[2].vrn_file = FileX
  /\ vrn_key = "vrn_file_joint"
  /\ Lacking = {2}

====
